---------------------------- MODULE Spec2Model ----------------------------
(***************************************************************************)
(* Matrix scanner and radio pin setup of the xmega port of keyplus         *)
(* (ports/xmega-c/src/matrix_scanner.c, ports/xmega-c/src/nrf24.c).        *)
(*                                                                         *)
(* A port register holding an 8-bit mask is modelled as the set of bit     *)
(* numbers that are 1: (1 << b) is {b}, | is \cup, & is \cap, and a write  *)
(* of m to OUTSET / OUTCLR / DIRSET / DIRCLR adds m to / removes m from    *)
(* the OUT / DIR register.                                                 *)
(***************************************************************************)
EXTENDS Integers, Sequences, FiniteSets, TLC

VARIABLES
    \* configuration read by the code (set before matrix_scanner_init)
    g_scan_plan,            \* matrix_scan_plan_t
    row_pins, col_pins,     \* io_map_get_row_pin(i) / io_map_get_col_pin(i), 0-based
    g_slow_clock_mode,
    clock_speed_slow,       \* CLOCK_SPEED_SLOW in Hz
    rf_disabled,            \* g_runtime_settings.feature.ctrl.rf_disabled
    \* collaborators' state
    ledger,                 \* pin resource ledger: claimed bits per port
    ledger_owner,           \* per peripheral, the bits its claim calls obtained
    errors,                 \* error kinds registered so far
    \* matrix_scanner.c statics
    has_scan_irq_triggered,
    s_col_masks, s_row_port_masks, s_row_pin_mask, s_row_ports, s_bytes_per_row,
    s_parasitic_discharge_delay_idle, s_parasitic_discharge_delay_debouncing,
    \* nrf24.c
    is_nrf24_initialized,
    \* port registers, each a function of the port number
    DIR, OUT, INT0MASK, INTLVL, INTFLAGS, PINCTRL, PORT_IN,
    \* main-line control state
    pc,                     \* [op, step, row]: position of the main line
    scan_changed,           \* local of matrix_scan_row_col_mode
    \* observation of the calls the code makes
    trace,                  \* events of the most recent setup routine call
    debounce_log,           \* scanner_debounce_row calls of the most recent matrix_scan
    settle_delay,           \* the settle delay last waited by the operation in progress
    last,                   \* the most recently returned setup routine
    ret                     \* value returned by the most recent bool-returning operation

vars == << g_scan_plan, row_pins, col_pins, g_slow_clock_mode, clock_speed_slow,
           rf_disabled, ledger, ledger_owner, errors, has_scan_irq_triggered,
           s_col_masks, s_row_port_masks, s_row_pin_mask, s_row_ports, s_bytes_per_row,
           s_parasitic_discharge_delay_idle, s_parasitic_discharge_delay_debouncing,
           is_nrf24_initialized, DIR, OUT, INT0MASK, INTLVL, INTFLAGS, PINCTRL, PORT_IN,
           pc, scan_changed, trace, debounce_log, settle_delay, last, ret >>

---------------------------------------------------------------------------
(* Program constants *)

IO_PORT_COUNT == 6
IO_PORT_SIZE == 8
IO_PORT_MAX_PIN_NUM == IO_PORT_COUNT * IO_PORT_SIZE - 1

\* Row limit of the scan plan (scaled down for model checking).
MAX_NUM_ROWS == 2

Ports == 0 .. (IO_PORT_COUNT - 1)
Bits == 0 .. (IO_PORT_SIZE - 1)
Rows == 0 .. (MAX_NUM_ROWS - 1)

PORT_A_NUM == 0
PORT_B_NUM == 1
PORT_C_NUM == 2
PORT_D_NUM == 3
PORT_E_NUM == 4
PORT_R_NUM == 5

\* the null io_port_t pointer: no port number
NULL == IO_PORT_COUNT

MATRIX_SCANNER_MODE_COL_ROW == "COL_ROW"
MATRIX_SCANNER_MODE_ROW_COL == "ROW_COL"
MATRIX_SCANNER_MODE_PIN_GND == "PIN_GND"
MATRIX_SCANNER_MODE_PIN_VCC == "PIN_VCC"
\* the mode value of a zeroed plan, and some other unrecognised mode value
MODE_ZERO == "ZERO"
MODE_OTHER == "OTHER"

ERROR_MATRIX_PINS_CONFIG_TOO_LARGE == "ERROR_MATRIX_PINS_CONFIG_TOO_LARGE"
ERROR_PIN_MAPPING_CONFLICT == "ERROR_PIN_MAPPING_CONFLICT"
ERROR_UNSUPPORTED_SCAN_MODE == "ERROR_UNSUPPORTED_SCAN_MODE"
ERROR_NRF24_BAD_SPI_CONNECTION == "ERROR_NRF24_BAD_SPI_CONNECTION"

\* INT0LVL field of PORTx.INTCTRL
PORT_INT0LVL_OFF_gc == "OFF"
PORT_INT0LVL_LO_gc == "LO"

\* PINnCTRL values: inversion, output/pull configuration, input sense
PinCtrl(inven, opc, isc) == [inven |-> inven, opc |-> opc, isc |-> isc]
PINCTRL_RESET == PinCtrl(FALSE, "TOTEM", "BOTHEDGES")
COL_PINCTRL_PULLDOWN == PinCtrl(FALSE, "PULLDOWN", "BOTHEDGES")
COL_PINCTRL_PULLUP == PinCtrl(TRUE, "PULLUP", "BOTHEDGES")
ROW_PINCTRL_WIREDOR == PinCtrl(TRUE, "WIREDOR", "BOTHEDGES")
ROW_PINCTRL_WIREDAND == PinCtrl(FALSE, "WIREDAND", "BOTHEDGES")

\* What an output pin does for a bit written to its OUT register.  INVEN inverts
\* the written bit; a wired-AND pin connects to GND for 0 and is disconnected for
\* 1; a wired-OR pin drives high for 1 and is disconnected for 0; any other
\* output configuration drives both levels.  "Z": disconnected.
PinDrive(ctrl, out_bit) ==
    LET data == (out_bit # ctrl.inven)
    IN CASE ctrl.opc = "WIREDAND" -> IF data THEN "Z" ELSE "LOW"
         [] ctrl.opc = "WIREDOR" -> IF data THEN "HIGH" ELSE "Z"
         [] OTHER -> IF data THEN "HIGH" ELSE "LOW"

\* the OUT bit values at which a pin with this configuration is disconnected
DisconnectLevels(ctrl) == {v \in BOOLEAN : PinDrive(ctrl, v) = "Z"}

\* nrf24.c pin assignment
SS == 4
MOSI == 5
MISO == 6
SCK == 7
SPI_PIN_MASK == {SS, MOSI, MISO, SCK}
NRF24_SPI_PORT == PORT_C_NUM
NRF24_CE_PORT == PORT_R_NUM
NRF24_CE_PIN == {0}
NRF24_IRQ_PORT == PORT_R_NUM
NRF24_IRQ_PIN_MASK == {1}

BASE_CLOCK_HZ == 16000000
MHZ == 1000000

---------------------------------------------------------------------------
(* Macros of core/io_map.h and avr_util.h *)

INT_DIV_ROUND_UP(n, d) == (n + d - 1) \div d
IO_MAP_GET_PIN_PORT(pin) == pin \div IO_PORT_SIZE
IO_MAP_GET_PIN_BIT(pin) == pin % IO_PORT_SIZE

\* row_pins / col_pins are 1-based sequences, the code's index is 0-based
io_map_get_row_pin(pins, i) == pins[i + 1]
io_map_get_col_pin(pins, i) == pins[i + 1]

---------------------------------------------------------------------------
(* Event trace of a setup routine: every ledger claim, register write,     *)
(* write to a scanner static and registered error, in program order.       *)

\* k: kind of event, a: register / static / error name, p: port, m: mask written
\* or claimed; pre / post: the port's ledger entry before and after a claim call.
Ev(k, a, p, m) == [k |-> k, a |-> a, p |-> p, m |-> m, pre |-> {}, post |-> {}]
Log(s, e) == [s EXCEPT !.trace = Append(@, e)]

\* port->REG = mask (p is the port number)
RegWrite(s, reg, p, mask) == Log(s, Ev("reg", reg, p, mask))
\* a write to a static of matrix_scanner.c
MemWrite(s, name) == Log(s, Ev("mem", name, 0, {}))

DIRCLR(s, p, mask) == RegWrite([s EXCEPT !.DIR[p] = @ \ mask], "DIRCLR", p, mask)
DIRSET(s, p, mask) == RegWrite([s EXCEPT !.DIR[p] = @ \cup mask], "DIRSET", p, mask)
OUTCLR(s, p, mask) == RegWrite([s EXCEPT !.OUT[p] = @ \ mask], "OUTCLR", p, mask)
OUTSET(s, p, mask) == RegWrite([s EXCEPT !.OUT[p] = @ \cup mask], "OUTSET", p, mask)
INT0MASK_OR(s, p, mask) ==
    RegWrite([s EXCEPT !.INT0MASK[p] = @ \cup mask], "INT0MASK", p, mask)
\* PORTx.INTCTRL = (PORTx.INTCTRL & ~PORT_INT0LVL_gm) | lvl
INTCTRL_LVL(s, p, lvl) == RegWrite([s EXCEPT !.INTLVL[p] = lvl], "INTCTRL", p, {})

\* PORTCFG.MPCMASK = mask; port->PIN0CTRL = val.  With MPCMASK = 0 the write
\* goes to PIN0CTRL itself.
PINCTRL_MPC(s, p, mask, val) ==
    LET pins == IF mask = {} THEN {0} ELSE mask
    IN RegWrite([s EXCEPT !.PINCTRL[p] =
                    [b \in Bits |-> IF b \in pins THEN val ELSE @[b]]],
                "PINCTRL", p, mask)

register_error(s, kind) ==
    Log([s EXCEPT !.errors = @ \cup {kind}], Ev("err", kind, 0, {}))

has_critical_error(s) == s.errors # {}

---------------------------------------------------------------------------
(* Pin resource ledger *)

\* Mutation of io_map_claim_pins: a conflicting claim still takes the free bits.
io_map_claim_pins_partial(led, port_num, pin_mask) ==
    [ledger |-> [led EXCEPT ![port_num] = @ \cup pin_mask],
     conflict |-> led[port_num] \cap pin_mask # {}]

\* claim(port, bitmask): sets the bits only if none of them is already set,
\* otherwise fails without changing the ledger.
io_map_claim_pins(led, port_num, pin_mask) ==
    IF led[port_num] \cap pin_mask # {}
    THEN [ledger |-> led, conflict |-> TRUE]
    ELSE [ledger |-> [led EXCEPT ![port_num] = @ \cup pin_mask], conflict |-> FALSE]

\* A claim call made by a setup routine: the machine state after it, with the
\* call (its port, mask and result) recorded in the trace.
Claim(s, port_num, pin_mask) ==
    LET r == io_map_claim_pins(s.ledger, port_num, pin_mask)
    IN Log([s EXCEPT !.ledger = r.ledger],
           [k |-> IF r.conflict THEN "claim_conflict" ELSE "claim_ok",
            a |-> "io_map_claim_pins", p |-> port_num, m |-> pin_mask,
            pre |-> s.ledger[port_num], post |-> r.ledger[port_num]])

ClaimConflicts(s, port_num, pin_mask) ==
    io_map_claim_pins(s.ledger, port_num, pin_mask).conflict

---------------------------------------------------------------------------
(* matrix_scanner.c: setup *)

RECURSIVE setup_columns_masks(_, _)
\* first loop of setup_columns: collect the column pins into s_col_masks
setup_columns_masks(s, col_pin_i) ==
    IF col_pin_i >= s.g_scan_plan.cols THEN s
    ELSE LET pin_number == io_map_get_col_pin(s.col_pins, col_pin_i)
             col_port_num == IO_MAP_GET_PIN_PORT(pin_number)
             col_pin_bit == IO_MAP_GET_PIN_BIT(pin_number)
         IN setup_columns_masks(
                MemWrite([s EXCEPT !.s_col_masks[col_port_num] = @ \cup {col_pin_bit}],
                         "s_col_masks"),
                col_pin_i + 1)

\* the modes the switch statements of setup_columns and setup_rows have a case for
ModeHasCase(mode) ==
    mode \in {MATRIX_SCANNER_MODE_ROW_COL, MATRIX_SCANNER_MODE_PIN_VCC,
              MATRIX_SCANNER_MODE_COL_ROW, MATRIX_SCANNER_MODE_PIN_GND}

\* Mutation of ColumnPinCtrl: PIN_VCC grouped with the pull-up modes and PIN_GND
\* with the pull-down modes.
ColumnPinCtrl_swapped(mode) ==
    CASE mode \in {MATRIX_SCANNER_MODE_ROW_COL, MATRIX_SCANNER_MODE_PIN_GND}
            -> COL_PINCTRL_PULLDOWN
      [] mode \in {MATRIX_SCANNER_MODE_COL_ROW, MATRIX_SCANNER_MODE_PIN_VCC}
            -> COL_PINCTRL_PULLUP

\* switch (g_scan_plan.mode) of setup_columns: the PINnCTRL value of a column pin
ColumnPinCtrl(mode) ==
    CASE mode \in {MATRIX_SCANNER_MODE_ROW_COL, MATRIX_SCANNER_MODE_PIN_VCC}
            -> COL_PINCTRL_PULLDOWN
      [] mode \in {MATRIX_SCANNER_MODE_COL_ROW, MATRIX_SCANNER_MODE_PIN_GND}
            -> COL_PINCTRL_PULLUP

RECURSIVE setup_columns_ports(_, _, _)
\* second loop of setup_columns: claim and configure the pins port by port
setup_columns_ports(s, port_ii, max_port_num) ==
    IF port_ii >= max_port_num THEN s
    ELSE LET col_mask == s.s_col_masks[port_ii] IN
         IF col_mask = {} THEN setup_columns_ports(s, port_ii + 1, max_port_num)
         ELSE IF ClaimConflicts(s, port_ii, col_mask)
         THEN register_error(Claim(s, port_ii, col_mask), ERROR_PIN_MAPPING_CONFLICT)
         ELSE LET c == Claim(s, port_ii, col_mask)
                  d == INT0MASK_OR(DIRCLR(c, port_ii, col_mask), port_ii, col_mask)
                  ctrl == ColumnPinCtrl(s.g_scan_plan.mode)
              IN IF ~ModeHasCase(s.g_scan_plan.mode)
                 THEN register_error(Log(d, Ev("reg", "MPCMASK", port_ii, col_mask)),
                                     ERROR_UNSUPPORTED_SCAN_MODE)
                 ELSE setup_columns_ports(PINCTRL_MPC(d, port_ii, col_mask, ctrl),
                                          port_ii + 1, max_port_num)

setup_columns(s) ==
    LET m == setup_columns_masks(s, 0)
        max_col_pin_num == m.g_scan_plan.max_col_pin_num
        max_port_num == INT_DIV_ROUND_UP(max_col_pin_num + 1, IO_PORT_SIZE)
    IN setup_columns_ports(m, 0, max_port_num)

\* Mutation of RowPinCtrl: the two groups of modes exchange their configuration.
RowPinCtrl_swapped(mode) ==
    CASE mode \in {MATRIX_SCANNER_MODE_ROW_COL, MATRIX_SCANNER_MODE_PIN_VCC}
            -> ROW_PINCTRL_WIREDAND
      [] mode \in {MATRIX_SCANNER_MODE_COL_ROW, MATRIX_SCANNER_MODE_PIN_GND}
            -> ROW_PINCTRL_WIREDOR

\* switch (g_scan_plan.mode) of setup_rows: the PINnCTRL value of a row pin
RowPinCtrl(mode) ==
    CASE mode \in {MATRIX_SCANNER_MODE_ROW_COL, MATRIX_SCANNER_MODE_PIN_VCC}
            -> ROW_PINCTRL_WIREDOR
      [] mode \in {MATRIX_SCANNER_MODE_COL_ROW, MATRIX_SCANNER_MODE_PIN_GND}
            -> ROW_PINCTRL_WIREDAND

RECURSIVE setup_rows_loop(_, _)
setup_rows_loop(s, row_pin_i) ==
    IF row_pin_i >= s.g_scan_plan.rows THEN s
    ELSE LET pin_number == io_map_get_row_pin(s.row_pins, row_pin_i)
             row_port_num == IO_MAP_GET_PIN_PORT(pin_number)
             row_bit_mask == {IO_MAP_GET_PIN_BIT(pin_number)}
         IN IF ClaimConflicts(s, row_port_num, row_bit_mask)
            THEN register_error(Claim(s, row_port_num, row_bit_mask),
                                ERROR_PIN_MAPPING_CONFLICT)
            ELSE LET c == Claim(s, row_port_num, row_bit_mask)
                     m1 == MemWrite([c EXCEPT !.s_row_port_masks[row_port_num] =
                                                  @ \cup row_bit_mask],
                                    "s_row_port_masks")
                     m2 == MemWrite([m1 EXCEPT !.s_row_pin_mask[row_pin_i] = row_bit_mask],
                                    "s_row_pin_mask")
                     m3 == MemWrite([m2 EXCEPT !.s_row_ports[row_pin_i] = row_port_num],
                                    "s_row_ports")
                     d == OUTSET(DIRSET(m3, row_port_num, row_bit_mask),
                                 row_port_num, row_bit_mask)
                     ctrl == RowPinCtrl(s.g_scan_plan.mode)
                 IN IF ~ModeHasCase(s.g_scan_plan.mode)
                    THEN register_error(
                             Log(d, Ev("reg", "MPCMASK", row_port_num, row_bit_mask)),
                             ERROR_UNSUPPORTED_SCAN_MODE)
                    ELSE setup_rows_loop(
                             PINCTRL_MPC(d, row_port_num, row_bit_mask, ctrl),
                             row_pin_i + 1)

setup_rows(s) ==
    setup_rows_loop(
        MemWrite([s EXCEPT !.s_row_port_masks = [p \in Ports |-> {}]], "s_row_port_masks"),
        0)

unselect_all_rows(s) ==
    LET a == OUTSET(s, PORT_A_NUM, s.s_row_port_masks[PORT_A_NUM])
        b == OUTSET(a, PORT_B_NUM, s.s_row_port_masks[PORT_B_NUM])
        c == OUTSET(b, PORT_C_NUM, s.s_row_port_masks[PORT_C_NUM])
        d == OUTSET(c, PORT_D_NUM, s.s_row_port_masks[PORT_D_NUM])
        e == OUTSET(d, PORT_E_NUM, s.s_row_port_masks[PORT_E_NUM])
    IN OUTSET(e, PORT_R_NUM, s.s_row_port_masks[PORT_R_NUM])

select_all_rows(s) ==
    LET a == OUTCLR(s, PORT_A_NUM, s.s_row_port_masks[PORT_A_NUM])
        b == OUTCLR(a, PORT_B_NUM, s.s_row_port_masks[PORT_B_NUM])
        c == OUTCLR(b, PORT_C_NUM, s.s_row_port_masks[PORT_C_NUM])
        d == OUTCLR(c, PORT_D_NUM, s.s_row_port_masks[PORT_D_NUM])
        e == OUTCLR(d, PORT_E_NUM, s.s_row_port_masks[PORT_E_NUM])
    IN OUTCLR(e, PORT_R_NUM, s.s_row_port_masks[PORT_R_NUM])

\* PORTx.INTCTRL = (PORTx.INTCTRL & ~PORT_INT0LVL_gm) | lvl, for every port
set_int0_level(s, lvl) ==
    LET a == INTCTRL_LVL(s, PORT_A_NUM, lvl)
        b == INTCTRL_LVL(a, PORT_B_NUM, lvl)
        c == INTCTRL_LVL(b, PORT_C_NUM, lvl)
        d == INTCTRL_LVL(c, PORT_D_NUM, lvl)
        e == INTCTRL_LVL(d, PORT_E_NUM, lvl)
    IN INTCTRL_LVL(e, PORT_R_NUM, lvl)

matrix_scan_irq_disable(s) == unselect_all_rows(set_int0_level(s, PORT_INT0LVL_OFF_gc))

\* Mutation of ScaleDelay: divides before multiplying.
ScaleDelay_divfirst(D, slow_hz) ==
    LET base_factor == (BASE_CLOCK_HZ \div MHZ) % 256
        slow_factor == (slow_hz \div MHZ) % 256
    IN ((D \div base_factor) * slow_factor) % 256

\* (uint8_t) (((uint16_t) D * slow_factor) / base_factor), slow_factor and
\* base_factor being the uint8_t clock frequencies in MHz
ScaleDelay(D, slow_hz) ==
    LET base_factor == (BASE_CLOCK_HZ \div MHZ) % 256
        slow_factor == (slow_hz \div MHZ) % 256
    IN (((D * slow_factor) % 65536) \div base_factor) % 256

setup_delays(s) ==
    LET idle == s.g_scan_plan.parasitic_discharge_delay_idle
        deb == s.g_scan_plan.parasitic_discharge_delay_debouncing
        slow == s.g_slow_clock_mode
        a == MemWrite([s EXCEPT !.s_parasitic_discharge_delay_idle =
                          IF slow THEN ScaleDelay(idle, s.clock_speed_slow) ELSE idle],
                      "s_parasitic_discharge_delay_idle")
    IN MemWrite([a EXCEPT !.s_parasitic_discharge_delay_debouncing =
                    IF slow THEN ScaleDelay(deb, s.clock_speed_slow) ELSE deb],
                "s_parasitic_discharge_delay_debouncing")

ZERO_PLAN ==
    [mode |-> MODE_ZERO, rows |-> 0, cols |-> 0, max_col_pin_num |-> 0,
     parasitic_discharge_delay_idle |-> 0, parasitic_discharge_delay_debouncing |-> 0]

PlanTooLarge(plan) ==
    plan.rows > MAX_NUM_ROWS \/ plan.max_col_pin_num > IO_PORT_MAX_PIN_NUM

\* Mutation of matrix_scanner_init_setup: setup_rows is called in every mode.
matrix_scanner_init_setup_rows_always(s) ==
    LET b == MemWrite([s EXCEPT !.s_bytes_per_row =
                          INT_DIV_ROUND_UP(s.g_scan_plan.max_col_pin_num + 1,
                                           IO_PORT_SIZE)],
                      "s_bytes_per_row")
        c == setup_columns(setup_rows(b))
        d == unselect_all_rows(matrix_scan_irq_disable(c))
    IN setup_delays(d)

\* everything matrix_scanner_init does once the plan has passed the size check
matrix_scanner_init_setup(s) ==
    LET b == MemWrite([s EXCEPT !.s_bytes_per_row =
                          INT_DIV_ROUND_UP(s.g_scan_plan.max_col_pin_num + 1,
                                           IO_PORT_SIZE)],
                      "s_bytes_per_row")
        r == IF s.g_scan_plan.mode \in {MATRIX_SCANNER_MODE_COL_ROW,
                                        MATRIX_SCANNER_MODE_ROW_COL}
             THEN setup_rows(b) ELSE b
        c == setup_columns(r)
        d == unselect_all_rows(matrix_scan_irq_disable(c))
    IN setup_delays(d)

\* Mutation of matrix_scanner_init: the too-large branch lacks its return.
matrix_scanner_init_no_return(s) ==
    IF PlanTooLarge(s.g_scan_plan)
    THEN matrix_scanner_init_setup(
             register_error(Log([s EXCEPT !.g_scan_plan = ZERO_PLAN],
                                Ev("plan", "memset", 0, {})),
                            ERROR_MATRIX_PINS_CONFIG_TOO_LARGE))
    ELSE matrix_scanner_init_setup(s)

matrix_scanner_init(s) ==
    IF PlanTooLarge(s.g_scan_plan)
    THEN register_error(Log([s EXCEPT !.g_scan_plan = ZERO_PLAN],
                            Ev("plan", "memset", 0, {})),
                        ERROR_MATRIX_PINS_CONFIG_TOO_LARGE)
    ELSE matrix_scanner_init_setup(s)

---------------------------------------------------------------------------
(* nrf24.c *)

\* port->DIRSET = SS|MOSI|SCK; port->OUTSET = SS; then the SPI peripheral's
\* own registers (not port registers)
spi_init(s) ==
    LET a == DIRSET(s, NRF24_SPI_PORT, {SS, MOSI, SCK})
        b == OUTSET(a, NRF24_SPI_PORT, {SS})
    IN Log(b, Ev("spi", "SPI_CTRL", NRF24_SPI_PORT, {}))

nrf24_ce_init(s) == DIRSET(s, NRF24_CE_PORT, NRF24_CE_PIN)
nrf24_ce_set(s, val) ==
    IF val # 0 THEN OUTSET(s, NRF24_CE_PORT, NRF24_CE_PIN)
    ELSE OUTCLR(s, NRF24_CE_PORT, NRF24_CE_PIN)

\* spi_ok: whether nrf24_test_spi_connection sees the SPI transfer complete
nrf24_init(s, spi_ok) ==
    IF s.is_nrf24_initialized \/ s.rf_disabled THEN s
    ELSE LET a == [s EXCEPT !.is_nrf24_initialized = TRUE] IN
         IF ClaimConflicts(a, NRF24_SPI_PORT, SPI_PIN_MASK)
         THEN register_error(Claim(a, NRF24_SPI_PORT, SPI_PIN_MASK),
                             ERROR_PIN_MAPPING_CONFLICT)
         ELSE LET c == spi_init(Claim(a, NRF24_SPI_PORT, SPI_PIN_MASK))
                  ce == Claim(c, NRF24_CE_PORT, NRF24_CE_PIN)
                  iq == Claim(ce, NRF24_IRQ_PORT, NRF24_IRQ_PIN_MASK)
              IN IF has_critical_error(iq)
                 THEN register_error(iq, ERROR_PIN_MAPPING_CONFLICT)
                 ELSE IF ~spi_ok
                 THEN register_error(iq, ERROR_NRF24_BAD_SPI_CONNECTION)
                 ELSE nrf24_ce_set(nrf24_ce_init(iq), 0)

nrf24_disable(s) ==
    IF s.is_nrf24_initialized
    THEN LET a == Log(s, Ev("spi", "nrf24_power_set", NRF24_SPI_PORT, {}))
             b == DIRCLR(a, NRF24_SPI_PORT, {SS, MOSI, SCK})
             c == DIRSET(b, NRF24_CE_PORT, NRF24_CE_PIN)
         IN [c EXCEPT !.is_nrf24_initialized = FALSE]
    ELSE s

---------------------------------------------------------------------------
(* The machine state the routines above transform, and its write-back *)

M ==
    [g_scan_plan |-> g_scan_plan, row_pins |-> row_pins, col_pins |-> col_pins,
     g_slow_clock_mode |-> g_slow_clock_mode, clock_speed_slow |-> clock_speed_slow,
     rf_disabled |-> rf_disabled, ledger |-> ledger, errors |-> errors,
     s_col_masks |-> s_col_masks, s_row_port_masks |-> s_row_port_masks,
     s_row_pin_mask |-> s_row_pin_mask, s_row_ports |-> s_row_ports,
     s_bytes_per_row |-> s_bytes_per_row,
     s_parasitic_discharge_delay_idle |-> s_parasitic_discharge_delay_idle,
     s_parasitic_discharge_delay_debouncing |-> s_parasitic_discharge_delay_debouncing,
     is_nrf24_initialized |-> is_nrf24_initialized,
     DIR |-> DIR, OUT |-> OUT, INT0MASK |-> INT0MASK, INTLVL |-> INTLVL,
     PINCTRL |-> PINCTRL, trace |-> << >>]

config_vars == << row_pins, col_pins, g_slow_clock_mode, clock_speed_slow, rf_disabled >>
scanner_statics == << s_col_masks, s_row_port_masks, s_row_pin_mask, s_row_ports,
                      s_bytes_per_row, s_parasitic_discharge_delay_idle,
                      s_parasitic_discharge_delay_debouncing >>
setup_vars == << g_scan_plan, config_vars, ledger, ledger_owner, errors, scanner_statics,
                 is_nrf24_initialized, trace, last >>

CommitState(s) ==
    /\ g_scan_plan' = s.g_scan_plan
    /\ ledger' = s.ledger
    /\ errors' = s.errors
    /\ s_col_masks' = s.s_col_masks
    /\ s_row_port_masks' = s.s_row_port_masks
    /\ s_row_pin_mask' = s.s_row_pin_mask
    /\ s_row_ports' = s.s_row_ports
    /\ s_bytes_per_row' = s.s_bytes_per_row
    /\ s_parasitic_discharge_delay_idle' = s.s_parasitic_discharge_delay_idle
    /\ s_parasitic_discharge_delay_debouncing' = s.s_parasitic_discharge_delay_debouncing
    /\ is_nrf24_initialized' = s.is_nrf24_initialized
    /\ DIR' = s.DIR
    /\ OUT' = s.OUT
    /\ INT0MASK' = s.INT0MASK
    /\ INTLVL' = s.INTLVL
    /\ PINCTRL' = s.PINCTRL
    /\ UNCHANGED config_vars

\* the peripheral a setup routine belongs to
Peripheral(op) == IF op = "matrix_scanner_init" THEN "scanner" ELSE "radio"
\* the bits of port p that the claim calls recorded in tr obtained
ClaimedIn(tr, p) ==
    UNION {tr[i].m : i \in {j \in 1 .. Len(tr) : tr[j].k = "claim_ok" /\ tr[j].p = p}}

\* a setup routine returns: its effects and its event trace become visible
CommitSetup(s, op) ==
    /\ CommitState(s)
    /\ ledger_owner' = [ledger_owner EXCEPT ![Peripheral(op)] =
                            [p \in Ports |-> @[p] \cup ClaimedIn(s.trace, p)]]
    /\ trace' = s.trace
    /\ last' = op

Idle == [op |-> "idle", step |-> "", row |-> 0]

\* no settle delay waited (the main line is in no operation that waits one)
NoDelay == [macro |-> "", num_keys_debouncing |-> 0, delay |-> 0]

---------------------------------------------------------------------------
(* Initial states: hardware after reset, statics zeroed, a scan plan loaded *)

Modes ==
    {MATRIX_SCANNER_MODE_COL_ROW, MATRIX_SCANNER_MODE_ROW_COL,
     MATRIX_SCANNER_MODE_PIN_GND, MATRIX_SCANNER_MODE_PIN_VCC, MODE_ZERO, MODE_OTHER}

\* Pin numbers offered to the plans.  Rows: A0 and C4 (an SPI pin), in every
\* order and with repetition.  Columns: none; B0; B0,B1; A7,B0 (two ports); A0 (a
\* row pin); C4 (an SPI pin); B0,C4; R0 (the radio's CE pin); and two layouts
\* that use pin 48, the first pin past the last port.
RowPinPool == {0, 20}
ColPinLayouts ==
    {<< >>, <<8>>, <<8, 9>>, <<7, 8>>, <<0>>, <<20>>, <<8, 20>>, <<40>>, <<48>>, <<8, 48>>}

SeqsUpTo(S, n) == UNION {[1 .. k -> S] : k \in 0 .. n}

RECURSIVE MaxPin(_)
MaxPin(pins) ==
    IF pins = << >> THEN 0
    ELSE LET m == MaxPin(Tail(pins)) IN IF Head(pins) > m THEN Head(pins) ELSE m

ResetState ==
    /\ ledger = [p \in Ports |-> {}]
    /\ ledger_owner = [o \in {"scanner", "radio"} |-> [p \in Ports |-> {}]]
    /\ errors = {}
    /\ has_scan_irq_triggered = FALSE
    /\ s_col_masks = [p \in Ports |-> {}]
    /\ s_row_port_masks = [p \in Ports |-> {}]
    /\ s_row_pin_mask = [r \in Rows |-> {}]
    /\ s_row_ports = [r \in Rows |-> NULL]
    /\ s_bytes_per_row = 0
    /\ s_parasitic_discharge_delay_idle = 0
    /\ s_parasitic_discharge_delay_debouncing = 0
    /\ is_nrf24_initialized = FALSE
    /\ DIR = [p \in Ports |-> {}]
    /\ OUT = [p \in Ports |-> {}]
    /\ INT0MASK = [p \in Ports |-> {}]
    /\ INTLVL = [p \in Ports |-> PORT_INT0LVL_OFF_gc]
    /\ INTFLAGS = [p \in Ports |-> FALSE]
    /\ PINCTRL = [p \in Ports |-> [b \in Bits |-> PINCTRL_RESET]]
    /\ PORT_IN = [p \in Ports |-> {}]
    /\ pc = Idle
    /\ scan_changed = FALSE
    /\ trace = << >>
    /\ debounce_log = << >>
    /\ settle_delay = NoDelay
    /\ last = "boot"
    /\ ret = FALSE

\* a scan plan whose max_col_pin_num is the largest column pin it lists
LoadPlan(modes, rowPinSeqs, colPinSeqs, delays) ==
    /\ row_pins \in rowPinSeqs
    /\ col_pins \in colPinSeqs
    /\ \E mode \in modes, d \in delays :
          g_scan_plan = [mode |-> mode, rows |-> Len(row_pins), cols |-> Len(col_pins),
                         max_col_pin_num |-> MaxPin(col_pins),
                         parasitic_discharge_delay_idle |-> d[1],
                         parasitic_discharge_delay_debouncing |-> d[2]]

InitSetup ==
    /\ ResetState
    /\ LoadPlan(Modes, SeqsUpTo(RowPinPool, MAX_NUM_ROWS + 1),
                ColPinLayouts, {<<40, 200>>})
    /\ g_slow_clock_mode \in BOOLEAN
    /\ clock_speed_slow = 2 * MHZ
    /\ rf_disabled = FALSE

---------------------------------------------------------------------------
(* Setup operations, each called from the idle main line *)

runtime_vars == << has_scan_irq_triggered, INTFLAGS, PORT_IN, pc, scan_changed,
                   debounce_log, settle_delay, ret >>

MatrixScannerInit ==
    /\ pc = Idle
    /\ CommitSetup(matrix_scanner_init(M), "matrix_scanner_init")
    /\ UNCHANGED runtime_vars

Nrf24Init ==
    /\ pc = Idle
    /\ \E spi_ok \in BOOLEAN : CommitSetup(nrf24_init(M, spi_ok), "nrf24_init")
    /\ UNCHANGED runtime_vars

Nrf24Disable ==
    /\ pc = Idle
    /\ CommitSetup(nrf24_disable(M), "nrf24_disable")
    /\ UNCHANGED runtime_vars

NextSetup == MatrixScannerInit \/ Nrf24Init \/ Nrf24Disable

\* The setup phase: scanner and radio setup routines called in any order.
SpecSetup == InitSetup /\ [][NextSetup]_vars

---------------------------------------------------------------------------
(* The delay rescaling of matrix_scanner_init over the whole range of nominal *)
(* delays and the slow clock frequencies of whole MHz up to the base clock    *)

MaxDelay == 255
SlowClockChoices == {k * MHZ : k \in 1 .. (BASE_CLOCK_HZ \div MHZ)}

InitDelay ==
    /\ ResetState
    /\ LoadPlan({MATRIX_SCANNER_MODE_PIN_GND}, {<< >>}, {<<8>>},
                {<<d, MaxDelay - d>> : d \in 0 .. MaxDelay})
    /\ g_slow_clock_mode \in BOOLEAN
    /\ clock_speed_slow \in SlowClockChoices
    /\ rf_disabled = FALSE

NextDelay == MatrixScannerInit

SpecDelay == InitDelay /\ [][NextDelay]_vars

---------------------------------------------------------------------------
(* Properties of the setup routines *)

TraceIdx == 1 .. Len(trace)
IsClaim(e) == e.k \in {"claim_ok", "claim_conflict"}
IsRegWrite(e) == e.k = "reg"
IsMemWrite(e) == e.k = "mem"
IsErr(e, kind) == e.k = "err" /\ e.a = kind
InitReturned == last = "matrix_scanner_init"
NoErrorInTrace == \A i \in TraceIdx : trace[i].k # "err"

\* C1: every claim call made by a setup routine (scanner rows, scanner columns,
\* radio SPI / CE / IRQ, in any order) whose mask overlaps the port's claimed bits
\* returns CONFLICT and leaves the port's ledger entry as it was, adding not even
\* the free bits of the mask; a claim whose bits are all free succeeds and adds
\* exactly those bits.  Between two claim calls nothing else changes the ledger,
\* so a second claim overlapping an earlier successful one always conflicts.
C1_ClaimExclusive ==
    \A i \in TraceIdx :
        LET e == trace[i] IN
        IsClaim(e) =>
          /\ (e.m \cap e.pre # {}) => (e.k = "claim_conflict" /\ e.post = e.pre)
          /\ (e.m \cap e.pre = {}) => (e.k = "claim_ok" /\ e.post = e.pre \cup e.m)
          /\ \A j \in TraceIdx :
                (i < j /\ IsClaim(trace[j]) /\ trace[j].p = e.p) =>
                    e.post = trace[j].pre
          /\ e.post \subseteq ledger[e.p]

\* C1 witness: the radio's SPI claim {4,5,6,7} on port C met the scanner's claim
\* of C4 alone: it conflicted although three of its four bits were free.
C1_Witness ==
    /\ last = "nrf24_init"
    /\ \E i \in TraceIdx :
          /\ trace[i].k = "claim_conflict"
          /\ trace[i].p = NRF24_SPI_PORT
          /\ trace[i].pre = {SS}
          /\ trace[i].m = SPI_PIN_MASK
          /\ ledger[NRF24_SPI_PORT] = {SS}

\* C2: matrix_scanner_init on a plan with rows > MAX_NUM_ROWS or max_col_pin_num >
\* IO_PORT_MAX_PIN_NUM registers ERROR_MATRIX_PINS_CONFIG_TOO_LARGE, leaves the
\* plan zeroed, and makes no claim call and no write to a port register, column
\* mask, row descriptor or scaled delay.
C2_ValidationGate ==
    [][(/\ MatrixScannerInit
        /\ \/ g_scan_plan.rows > MAX_NUM_ROWS
           \/ g_scan_plan.max_col_pin_num > IO_PORT_MAX_PIN_NUM)
       => /\ ERROR_MATRIX_PINS_CONFIG_TOO_LARGE \in errors'
          /\ g_scan_plan' = ZERO_PLAN
          /\ \A i \in 1 .. Len(trace') :
                ~IsClaim(trace'[i]) /\ ~IsRegWrite(trace'[i]) /\ ~IsMemWrite(trace'[i])
          /\ UNCHANGED << ledger, DIR, OUT, INT0MASK, INTLVL, PINCTRL, scanner_statics >>
      ]_vars

\* C2 witness: init has returned from a plan with one row too many (and from
\* one with a column pin past the last port)
C2_Witness ==
    /\ InitReturned
    /\ g_scan_plan = ZERO_PLAN
    /\ Len(row_pins) > MAX_NUM_ROWS
    /\ MaxPin(col_pins) > IO_PORT_MAX_PIN_NUM
    /\ ERROR_MATRIX_PINS_CONFIG_TOO_LARGE \in errors
    /\ Len(trace) = 2

\* floor(D * slow_hz / base_hz), both frequencies taken in kHz to keep the product
\* inside the model checker's integers (the frequencies are multiples of 1 kHz)
ScaleLaw(D, slow_hz, base_hz) == (D * (slow_hz \div 1000)) \div (base_hz \div 1000)

\* C7: in slow clock mode each stored delay is floor(D * slow_clock_hz / 16000000)
\* of its nominal delay D (0..255); otherwise each stored delay is D itself.
C7_TimingScaleLaw ==
    (InitReturned /\ g_scan_plan # ZERO_PLAN) =>
        LET Didle == g_scan_plan.parasitic_discharge_delay_idle
            Ddeb == g_scan_plan.parasitic_discharge_delay_debouncing
        IN IF g_slow_clock_mode
           THEN /\ s_parasitic_discharge_delay_idle =
                      ScaleLaw(Didle, clock_speed_slow, BASE_CLOCK_HZ)
                /\ s_parasitic_discharge_delay_debouncing =
                      ScaleLaw(Ddeb, clock_speed_slow, BASE_CLOCK_HZ)
           ELSE /\ s_parasitic_discharge_delay_idle = Didle
                /\ s_parasitic_discharge_delay_debouncing = Ddeb

\* C7 witness: D = 40 at a slow clock of 1 MHz is stored as 2
C7_Witness ==
    /\ InitReturned
    /\ g_slow_clock_mode
    /\ clock_speed_slow = MHZ
    /\ g_scan_plan.parasitic_discharge_delay_idle = 40
    /\ s_parasitic_discharge_delay_idle = 2
    /\ s_parasitic_discharge_delay_debouncing = 13

\* C8: once matrix_scanner_init has registered ERROR_PIN_MAPPING_CONFLICT for a
\* failed row or column claim, it claims no further pin and writes no further
\* port register before it returns.
C8_NoSetupAfterConflict ==
    InitReturned =>
        \A i \in TraceIdx, j \in TraceIdx :
            (i < j /\ IsErr(trace[i], ERROR_PIN_MAPPING_CONFLICT)) =>
                (~IsClaim(trace[j]) /\ ~IsRegWrite(trace[j]))

\* C9: matrix_scanner_init on a plan that passes the size check and whose mode is
\* none of ROW_COL, COL_ROW, PIN_GND, PIN_VCC registers ERROR_UNSUPPORTED_SCAN_MODE,
\* with no pin claimed and no port register written before it.
C9_UnsupportedMode ==
    (InitReturned /\ ~PlanTooLarge(g_scan_plan) /\ ~ModeHasCase(g_scan_plan.mode)
                  /\ \A i \in TraceIdx : trace[i].k # "plan") =>
        \E i \in TraceIdx :
            /\ IsErr(trace[i], ERROR_UNSUPPORTED_SCAN_MODE)
            /\ \A j \in 1 .. (i - 1) : ~IsClaim(trace[j]) /\ ~IsRegWrite(trace[j])

ColPins == {col_pins[i] : i \in 1 .. g_scan_plan.cols}
ColBitsOn(p) == {IO_MAP_GET_PIN_BIT(pin) : pin \in {q \in ColPins : IO_MAP_GET_PIN_PORT(q) = p}}

\* C10: after an init that registered no error, in each of the four modes every
\* column pin of the plan is an input, senses both edges, is in its port's
\* interrupt mask, and has pull-down without inversion (ROW_COL, PIN_VCC) or
\* pull-up with inversion (COL_ROW, PIN_GND); and each port's column mask holds
\* exactly the plan's column pins on that port.
C10_ColumnPolicy ==
    (InitReturned /\ NoErrorInTrace /\ ModeHasCase(g_scan_plan.mode)) =>
        /\ \A pin \in ColPins :
              LET p == IO_MAP_GET_PIN_PORT(pin)
                  b == IO_MAP_GET_PIN_BIT(pin)
              IN /\ b \notin DIR[p]
                 /\ b \in INT0MASK[p]
                 /\ PINCTRL[p][b].isc = "BOTHEDGES"
                 /\ IF g_scan_plan.mode \in {MATRIX_SCANNER_MODE_ROW_COL,
                                              MATRIX_SCANNER_MODE_PIN_VCC}
                    THEN PINCTRL[p][b].opc = "PULLDOWN" /\ ~PINCTRL[p][b].inven
                    ELSE PINCTRL[p][b].opc = "PULLUP" /\ PINCTRL[p][b].inven
        /\ \A p \in Ports : s_col_masks[p] = ColBitsOn(p)

\* C10 witness: a PIN_VCC plan with columns on two ports (A7, B0) set up without error
C10_Witness ==
    /\ InitReturned /\ NoErrorInTrace
    /\ g_scan_plan.mode = MATRIX_SCANNER_MODE_PIN_VCC
    /\ col_pins = <<7, 8>>
    /\ s_col_masks[PORT_A_NUM] = {7} /\ s_col_masks[PORT_B_NUM] = {0}
    /\ PINCTRL[PORT_B_NUM][0] = COL_PINCTRL_PULLDOWN

---------------------------------------------------------------------------
(* matrix_scanner.c: scanning and idle wake.  matrix_scan, matrix_scan_irq_enable *)
(* and matrix_scan_irq_disable run step by step, so that the port interrupt can   *)
(* preempt them between two steps.                                                *)

\* row's pin is at the level select_row writes (its OUT bit is cleared)
RowSelected(row) ==
    /\ row \in Rows
    /\ s_row_ports[row] # NULL
    /\ s_row_pin_mask[row] \cap OUT[s_row_ports[row]] = {}

PlanRows == 0 .. (g_scan_plan.rows - 1)
SelectedRows == {r \in PlanRows : RowSelected(r)}

\* port->OUTCLR = mask.  A row that setup_rows never reached has the zeroed
\* descriptor (null port, mask 0): the write then hits no port register.
select_row(s, row) ==
    IF s.s_row_ports[row] = NULL THEN s
    ELSE OUTCLR(s, s.s_row_ports[row], s.s_row_pin_mask[row])

\* Mutation of unselect_row: OUTCLR written for OUTSET.
unselect_row_outclr(s, row) ==
    IF s.s_row_ports[row] = NULL THEN s
    ELSE OUTCLR(s, s.s_row_ports[row], s.s_row_pin_mask[row])

unselect_row(s, row) ==
    IF s.s_row_ports[row] = NULL THEN s
    ELSE OUTSET(s, s.s_row_ports[row], s.s_row_pin_mask[row])

\* new_row of scan_row: PORTx.IN & s_col_masks[x] for every port
ColumnSample == [p \in Ports |-> PORT_IN[p] \cap s_col_masks[p]]

\* one scanner_debounce_row(row, new_row, s_bytes_per_row) call and its result
DebounceCall(row, changed) ==
    [row |-> row, selected |-> SelectedRows, changed |-> changed]

\* Mutation of matrix_has_active_row_value: the last port is left out.
matrix_has_active_row_value_no_port_r ==
    \/ PORT_IN[PORT_A_NUM] \cap s_col_masks[PORT_A_NUM] # {}
    \/ PORT_IN[PORT_B_NUM] \cap s_col_masks[PORT_B_NUM] # {}
    \/ PORT_IN[PORT_C_NUM] \cap s_col_masks[PORT_C_NUM] # {}
    \/ PORT_IN[PORT_D_NUM] \cap s_col_masks[PORT_D_NUM] # {}
    \/ PORT_IN[PORT_E_NUM] \cap s_col_masks[PORT_E_NUM] # {}

\* (PORTA.IN & s_col_masks[PORT_A_NUM]) || ... || (PORTR.IN & s_col_masks[PORT_R_NUM])
matrix_has_active_row_value ==
    \/ PORT_IN[PORT_A_NUM] \cap s_col_masks[PORT_A_NUM] # {}
    \/ PORT_IN[PORT_B_NUM] \cap s_col_masks[PORT_B_NUM] # {}
    \/ PORT_IN[PORT_C_NUM] \cap s_col_masks[PORT_C_NUM] # {}
    \/ PORT_IN[PORT_D_NUM] \cap s_col_masks[PORT_D_NUM] # {}
    \/ PORT_IN[PORT_E_NUM] \cap s_col_masks[PORT_E_NUM] # {}
    \/ PORT_IN[PORT_R_NUM] \cap s_col_masks[PORT_R_NUM] # {}


\* the firmware initialises the scanner before it uses it
ScannerReady == last # "boot"

At(op, step) == pc.op = op /\ pc.step = step

\* matrix_scan(): the switch on the mode; the pin modes sample once
MatrixScan ==
    /\ pc = Idle /\ ScannerReady
    /\ IF g_scan_plan.mode \in {MATRIX_SCANNER_MODE_COL_ROW, MATRIX_SCANNER_MODE_ROW_COL}
       THEN /\ debounce_log' = << >>
            /\ scan_changed' = FALSE
            /\ IF 0 < g_scan_plan.rows
               THEN pc' = [op |-> "scan", step |-> "select", row |-> 0] /\ ret' = ret
               ELSE pc' = Idle /\ ret' = FALSE
       ELSE IF g_scan_plan.mode \in {MATRIX_SCANNER_MODE_PIN_GND,
                                      MATRIX_SCANNER_MODE_PIN_VCC}
       THEN \E changed \in BOOLEAN :
               /\ debounce_log' = << DebounceCall(0, changed) >>
               /\ ret' = changed
               /\ UNCHANGED << pc, scan_changed >>
       ELSE /\ debounce_log' = << >>
            /\ ret' = FALSE
            /\ UNCHANGED << pc, scan_changed >>
    /\ UNCHANGED << setup_vars, has_scan_irq_triggered,
                    DIR, OUT, INT0MASK, INTLVL, INTFLAGS, PINCTRL, PORT_IN,
                    settle_delay >>

\* select_row(row)
ScanSelect ==
    /\ At("scan", "select")
    /\ OUT' = select_row(M, pc.row).OUT
    /\ pc' = [pc EXCEPT !.step = "delay"]
    /\ UNCHANGED << setup_vars, has_scan_irq_triggered, DIR, INT0MASK, INTLVL, INTFLAGS,
                    PINCTRL, PORT_IN, scan_changed, debounce_log, ret, settle_delay >>

\* PARASITIC_DISCHARGE_DELAY_SLOW_CLOCK(d) / ..._FAST_CLOCK(d): the macro used, the
\* count get_matrix_num_keys_debouncing() returned before it, and the delay d
SettleDelay(macro, num_keys_debouncing, d) ==
    [macro |-> macro, num_keys_debouncing |-> num_keys_debouncing, delay |-> d]

\* values get_matrix_num_keys_debouncing() returns: none, one, several keys
KeysDebouncing == {0, 1, 3}

\* Mutation of ScanSettleDelay: a non-zero count selects the idle delay.
ScanSettleDelay_swapped(num_keys_debouncing) ==
    SettleDelay(IF g_slow_clock_mode THEN "SLOW_CLOCK" ELSE "FAST_CLOCK",
                num_keys_debouncing,
                IF num_keys_debouncing # 0
                THEN s_parasitic_discharge_delay_idle
                ELSE s_parasitic_discharge_delay_debouncing)

\* if (get_matrix_num_keys_debouncing()) { ...(s_parasitic_discharge_delay_debouncing) }
\* else { ...(s_parasitic_discharge_delay_idle) }, each with the macro of the clock mode
ScanSettleDelay(num_keys_debouncing) ==
    SettleDelay(IF g_slow_clock_mode THEN "SLOW_CLOCK" ELSE "FAST_CLOCK",
                num_keys_debouncing,
                IF num_keys_debouncing # 0
                THEN s_parasitic_discharge_delay_debouncing
                ELSE s_parasitic_discharge_delay_idle)

\* the settle delay of one row iteration, between select_row and scan_row
ScanDelay ==
    /\ At("scan", "delay")
    /\ \E n \in KeysDebouncing : settle_delay' = ScanSettleDelay(n)
    /\ pc' = [pc EXCEPT !.step = "sample"]
    /\ UNCHANGED << setup_vars, has_scan_irq_triggered, DIR, OUT, INT0MASK, INTLVL,
                    INTFLAGS, PINCTRL, PORT_IN, scan_changed, debounce_log, ret >>

\* Mutation of ScanSample: scan_changed = scan_row(row), an assignment for the |=.
ScanSample_assign ==
    /\ At("scan", "sample")
    /\ \E changed \in BOOLEAN :
          /\ debounce_log' = Append(debounce_log, DebounceCall(pc.row, changed))
          /\ scan_changed' = changed
    /\ pc' = [pc EXCEPT !.step = "unselect"]
    /\ UNCHANGED << setup_vars, has_scan_irq_triggered, DIR, OUT, INT0MASK, INTLVL,
                    INTFLAGS, PINCTRL, PORT_IN, ret, settle_delay >>

\* scan_changed |= scan_row(row)
ScanSample ==
    /\ At("scan", "sample")
    /\ \E changed \in BOOLEAN :
          /\ debounce_log' = Append(debounce_log, DebounceCall(pc.row, changed))
          /\ scan_changed' = (scan_changed \/ changed)
    /\ pc' = [pc EXCEPT !.step = "unselect"]
    /\ UNCHANGED << setup_vars, has_scan_irq_triggered, DIR, OUT, INT0MASK, INTLVL,
                    INTFLAGS, PINCTRL, PORT_IN, ret, settle_delay >>

\* unselect_row(row); ++row; the loop test; return scan_changed
ScanUnselect ==
    /\ At("scan", "unselect")
    /\ OUT' = unselect_row(M, pc.row).OUT
    /\ IF pc.row + 1 < g_scan_plan.rows
       THEN pc' = [op |-> "scan", step |-> "select", row |-> pc.row + 1] /\ ret' = ret
       ELSE pc' = Idle /\ ret' = scan_changed
    /\ settle_delay' = NoDelay
    /\ UNCHANGED << setup_vars, has_scan_irq_triggered, DIR, INT0MASK, INTLVL, INTFLAGS,
                    PINCTRL, PORT_IN, scan_changed, debounce_log >>

\* matrix_scan_irq_enable(): select_all_rows()
ArmSelect ==
    /\ pc = Idle /\ ScannerReady
    /\ OUT' = select_all_rows(M).OUT
    /\ pc' = [op |-> "arm", step |-> "delay", row |-> 0]
    /\ UNCHANGED << setup_vars, has_scan_irq_triggered, DIR, INT0MASK, INTLVL, INTFLAGS,
                    PINCTRL, PORT_IN, scan_changed, debounce_log, ret, settle_delay >>

\* PARASITIC_DISCHARGE_DELAY_SLOW_CLOCK(s_parasitic_discharge_delay_idle)
ArmDelay ==
    /\ At("arm", "delay")
    /\ settle_delay' = SettleDelay("SLOW_CLOCK", 0, s_parasitic_discharge_delay_idle)
    /\ pc' = [pc EXCEPT !.step = "clear_flags"]
    /\ UNCHANGED << setup_vars, has_scan_irq_triggered, DIR, OUT, INT0MASK, INTLVL,
                    INTFLAGS, PINCTRL, PORT_IN, scan_changed, debounce_log, ret >>

\* Mutation of ArmClearFlags: the stale hardware flags are left as they are.
ArmClearFlags_skip ==
    /\ At("arm", "clear_flags")
    /\ pc' = [pc EXCEPT !.step = "clear"]
    /\ UNCHANGED << setup_vars, has_scan_irq_triggered, DIR, OUT, INT0MASK, INTLVL,
                    INTFLAGS, PINCTRL, PORT_IN, scan_changed, debounce_log, ret,
                    settle_delay >>

\* matrix_scan_irq_clear_flags()
ArmClearFlags ==
    /\ At("arm", "clear_flags")
    /\ INTFLAGS' = [p \in Ports |-> FALSE]
    /\ pc' = [pc EXCEPT !.step = "clear"]
    /\ UNCHANGED << setup_vars, has_scan_irq_triggered, DIR, OUT, INT0MASK, INTLVL,
                    PINCTRL, PORT_IN, scan_changed, debounce_log, ret, settle_delay >>

\* matrix_scan_irq_clear()
ArmClear ==
    /\ At("arm", "clear")
    /\ has_scan_irq_triggered' = FALSE
    /\ pc' = [pc EXCEPT !.step = "level"]
    /\ UNCHANGED << setup_vars, DIR, OUT, INT0MASK, INTLVL, INTFLAGS,
                    PINCTRL, PORT_IN, scan_changed, debounce_log, ret, settle_delay >>

\* PORTx.INTCTRL = ... | PORT_INT0LVL_LO_gc for every port; return
ArmLevel ==
    /\ At("arm", "level")
    /\ INTLVL' = set_int0_level(M, PORT_INT0LVL_LO_gc).INTLVL
    /\ pc' = Idle
    /\ settle_delay' = NoDelay
    /\ UNCHANGED << setup_vars, has_scan_irq_triggered, DIR, OUT, INT0MASK, INTFLAGS,
                    PINCTRL, PORT_IN, scan_changed, debounce_log, ret >>

\* Mutation of DisarmLevel: the rows are released first, the level still enabled.
DisarmLevel_rows_first ==
    /\ pc = Idle /\ ScannerReady
    /\ OUT' = unselect_all_rows(M).OUT
    /\ pc' = [op |-> "disarm", step |-> "unselect", row |-> 0]
    /\ UNCHANGED << setup_vars, has_scan_irq_triggered, DIR, INT0MASK, INTLVL, INTFLAGS,
                    PINCTRL, PORT_IN, scan_changed, debounce_log, ret, settle_delay >>

\* matrix_scan_irq_disable(): PORTx.INTCTRL = ... | PORT_INT0LVL_OFF_gc for every port
DisarmLevel ==
    /\ pc = Idle /\ ScannerReady
    /\ INTLVL' = set_int0_level(M, PORT_INT0LVL_OFF_gc).INTLVL
    /\ pc' = [op |-> "disarm", step |-> "unselect", row |-> 0]
    /\ UNCHANGED << setup_vars, has_scan_irq_triggered, DIR, OUT, INT0MASK, INTFLAGS,
                    PINCTRL, PORT_IN, scan_changed, debounce_log, ret, settle_delay >>

\* unselect_all_rows(); return
DisarmUnselect ==
    /\ At("disarm", "unselect")
    /\ OUT' = unselect_all_rows(M).OUT
    /\ pc' = Idle
    /\ UNCHANGED << setup_vars, has_scan_irq_triggered, DIR, INT0MASK, INTLVL, INTFLAGS,
                    PINCTRL, PORT_IN, scan_changed, debounce_log, ret, settle_delay >>

IrqHasTriggered ==
    /\ pc = Idle /\ ScannerReady
    /\ ret' = has_scan_irq_triggered
    /\ UNCHANGED << setup_vars, has_scan_irq_triggered, DIR, OUT, INT0MASK, INTLVL,
                    INTFLAGS, PINCTRL, PORT_IN, pc, scan_changed, debounce_log,
                    settle_delay >>

IrqClear ==
    /\ pc = Idle /\ ScannerReady
    /\ has_scan_irq_triggered' = FALSE
    /\ UNCHANGED << setup_vars, DIR, OUT, INT0MASK, INTLVL, INTFLAGS, PINCTRL, PORT_IN,
                    pc, scan_changed, debounce_log, ret, settle_delay >>

HasActiveRow ==
    /\ pc = Idle /\ ScannerReady
    /\ ret' = matrix_has_active_row_value
    /\ UNCHANGED << setup_vars, has_scan_irq_triggered, DIR, OUT, INT0MASK, INTLVL,
                    INTFLAGS, PINCTRL, PORT_IN, pc, scan_changed, debounce_log,
                    settle_delay >>

---------------------------------------------------------------------------
(* Hardware: column inputs and the port interrupt *)

ColPinSet == {col_pins[i] : i \in 1 .. Len(col_pins)}

\* A column input changes level.  The port latches INT0IF when the pin is in
\* INT0MASK and senses both edges.
ColumnEdge ==
    /\ \E pin \in ColPinSet :
          LET p == IO_MAP_GET_PIN_PORT(pin)
              b == IO_MAP_GET_PIN_BIT(pin)
          IN /\ p \in Ports
             /\ PORT_IN' = [PORT_IN EXCEPT ![p] =
                                IF b \in @ THEN @ \ {b} ELSE @ \cup {b}]
             /\ INTFLAGS' = [INTFLAGS EXCEPT ![p] =
                                @ \/ (b \in INT0MASK[p] /\ PINCTRL[p][b].isc = "BOTHEDGES")]
    /\ UNCHANGED << setup_vars, has_scan_irq_triggered, DIR, OUT, INT0MASK, INTLVL,
                    PINCTRL, pc, scan_changed, debounce_log, ret, settle_delay >>

\* Mutation of matrix_scan_irq: counts edges in the flag instead of latching it.
matrix_scan_irq_toggle ==
    /\ INTFLAGS' = [p \in Ports |-> FALSE]
    /\ has_scan_irq_triggered' = ~has_scan_irq_triggered

\* matrix_scan_irq(): matrix_scan_irq_clear_flags(); has_scan_irq_triggered = 1
matrix_scan_irq ==
    /\ INTFLAGS' = [p \in Ports |-> FALSE]
    /\ has_scan_irq_triggered' = TRUE

\* Mutation of PortInterrupt: the handler also releases the rows.
PortInterrupt_unselect ==
    /\ \E p \in Ports : INTFLAGS[p] /\ INTLVL[p] # PORT_INT0LVL_OFF_gc
    /\ matrix_scan_irq
    /\ OUT' = unselect_all_rows(M).OUT
    /\ UNCHANGED << setup_vars, DIR, INT0MASK, INTLVL, PINCTRL, PORT_IN,
                    pc, scan_changed, debounce_log, ret, settle_delay >>

\* ISR(PORTx_INT0_vect): runs when the port's INT0IF is set and its interrupt
\* level is enabled, preempting the main line wherever it is
PortInterrupt ==
    /\ \E p \in Ports : INTFLAGS[p] /\ INTLVL[p] # PORT_INT0LVL_OFF_gc
    /\ matrix_scan_irq
    /\ UNCHANGED << setup_vars, DIR, OUT, INT0MASK, INTLVL, PINCTRL, PORT_IN,
                    pc, scan_changed, debounce_log, ret, settle_delay >>

---------------------------------------------------------------------------
(* The scanner in operation *)

\* Rows: none; A0,A1; A0 twice (a plan that conflicts with itself); A0,A1,B1.
\* Columns: B0, and for one matrix plan C0,D0 (two ports).
RunRowLayouts == {<< >>, <<0, 1>>, <<0, 0>>, <<0, 1, 9>>}

Init ==
    /\ ResetState
    /\ \/ LoadPlan(Modes \ {MODE_ZERO}, RunRowLayouts, {<<8>>}, {<<40, 200>>})
       \/ LoadPlan({MATRIX_SCANNER_MODE_ROW_COL}, {<<0, 1>>}, {<<16, 24>>}, {<<40, 200>>})
    /\ g_slow_clock_mode = FALSE
    /\ clock_speed_slow = 2 * MHZ
    /\ rf_disabled = FALSE

Next ==
    \/ MatrixScannerInit
    \/ MatrixScan \/ ScanSelect \/ ScanDelay \/ ScanSample \/ ScanUnselect
    \/ ArmSelect \/ ArmDelay \/ ArmClearFlags \/ ArmClear \/ ArmLevel
    \/ DisarmLevel \/ DisarmUnselect
    \/ IrqHasTriggered \/ IrqClear \/ HasActiveRow
    \/ ColumnEdge \/ PortInterrupt

Spec == Init /\ [][Next]_vars

---------------------------------------------------------------------------
(* Properties of the scanner in operation *)

MatrixMode ==
    g_scan_plan.mode \in {MATRIX_SCANNER_MODE_COL_ROW, MATRIX_SCANNER_MODE_ROW_COL}
LogIdx == 1 .. Len(debounce_log)
\* a matrix_scan call in a matrix mode returns: out of the row loop, or at once
\* when the plan has no rows
ScanReturns ==
    /\ MatrixMode
    /\ \/ At("scan", "unselect") /\ pc' = Idle
       \/ MatrixScan /\ pc' = Idle
\* the column interrupt level is enabled: matrix_scan_irq_enable has returned and
\* matrix_scan_irq_disable has not been called since
Armed == \A p \in Ports : INTLVL[p] = PORT_INT0LVL_LO_gc
ConfiguredRows == {r \in PlanRows : r \in Rows /\ s_row_ports[r] # NULL}

C4_RowExclusive ==
    (errors = {} /\ MatrixMode /\ g_scan_plan.rows >= 2) =>
        /\ \A i \in LogIdx : debounce_log[i].selected = {debounce_log[i].row}
        /\ At("scan", "select") => \A r \in SelectedRows : r >= pc.row

\* C5: while the column interrupt level is enabled every configured row is
\* selected, whatever scanner operations run in that window.
\* (Stated for a scanner whose setup registered no error.)
C5_ArmedRowsAsserted ==
    (errors = {} /\ Armed) => \A r \in ConfiguredRows : RowSelected(r)

\* C6: has_scan_irq_triggered is false after matrix_scan_irq_enable has cleared it
\* and until a port interrupt runs; every port interrupt leaves it true, also
\* when it was already true; only matrix_scan_irq_clear (called on its own or by
\* matrix_scan_irq_enable) makes it false, matrix_scan_irq_disable and the other
\* operations leave it as it is; one matrix_scan_irq_clear makes it false.
C6_TriggerLatch ==
    /\ [][PortInterrupt => has_scan_irq_triggered']_vars
    /\ [][(~has_scan_irq_triggered /\ has_scan_irq_triggered') => PortInterrupt]_vars
    /\ [][(has_scan_irq_triggered /\ ~has_scan_irq_triggered') =>
            (IrqClear \/ ArmClear)]_vars
    /\ [][(IrqClear \/ ArmClear) => ~has_scan_irq_triggered']_vars
    /\ [][(DisarmLevel \/ DisarmUnselect) => UNCHANGED has_scan_irq_triggered]_vars

\* C6 witness: the flag set in an arm window is still set after
\* matrix_scan_irq_disable has returned, with a further edge pending
C6_Witness ==
    /\ has_scan_irq_triggered
    /\ pc = Idle
    /\ \A p \in Ports : INTLVL[p] = PORT_INT0LVL_OFF_gc
    /\ \E p \in Ports : INTFLAGS[p]
    /\ SelectedRows = {}
    /\ g_scan_plan.rows = 2 /\ ConfiguredRows = {0, 1}

---------------------------------------------------------------------------
(* Row pins: electrical policy *)

\* the row pins of the plan, as (port, bit) pairs
RowPinsOf(mode) ==
    IF g_scan_plan.mode = mode
    THEN {<< IO_MAP_GET_PIN_PORT(row_pins[i]), IO_MAP_GET_PIN_BIT(row_pins[i]) >> :
             i \in 1 .. g_scan_plan.rows}
    ELSE {}

InitSucceeded == InitReturned /\ NoErrorInTrace

\* C11 (as stated): after a successful init every ROW_COL row pin is an inverted
\* output disconnected when 1 is written to it, and every COL_ROW row pin is a
\* non-inverted output disconnected when 0 is written to it.
C11_RowPolicyAsStated ==
    InitSucceeded =>
        /\ \A pb \in RowPinsOf(MATRIX_SCANNER_MODE_ROW_COL) :
              /\ pb[2] \in DIR[pb[1]]
              /\ PINCTRL[pb[1]][pb[2]].inven
              /\ DisconnectLevels(PINCTRL[pb[1]][pb[2]]) = {TRUE}
        /\ \A pb \in RowPinsOf(MATRIX_SCANNER_MODE_COL_ROW) :
              /\ pb[2] \in DIR[pb[1]]
              /\ ~PINCTRL[pb[1]][pb[2]].inven
              /\ DisconnectLevels(PINCTRL[pb[1]][pb[2]]) = {FALSE}

\* C11 (amended): after a successful init every ROW_COL row pin is an inverted
\* wired-OR output and every COL_ROW row pin is a non-inverted wired-AND output;
\* in both modes the pin is disconnected when 1 is written to it and driven
\* (high in ROW_COL, low in COL_ROW) when 0 is written to it.
C11_RowPolicy ==
    InitSucceeded =>
        /\ \A pb \in RowPinsOf(MATRIX_SCANNER_MODE_ROW_COL) :
              /\ pb[2] \in DIR[pb[1]]
              /\ PINCTRL[pb[1]][pb[2]].inven
              /\ PINCTRL[pb[1]][pb[2]].opc = "WIREDOR"
              /\ DisconnectLevels(PINCTRL[pb[1]][pb[2]]) = {TRUE}
              /\ PinDrive(PINCTRL[pb[1]][pb[2]], FALSE) = "HIGH"
        /\ \A pb \in RowPinsOf(MATRIX_SCANNER_MODE_COL_ROW) :
              /\ pb[2] \in DIR[pb[1]]
              /\ ~PINCTRL[pb[1]][pb[2]].inven
              /\ PINCTRL[pb[1]][pb[2]].opc = "WIREDAND"
              /\ DisconnectLevels(PINCTRL[pb[1]][pb[2]]) = {TRUE}
              /\ PinDrive(PINCTRL[pb[1]][pb[2]], FALSE) = "LOW"

\* C11 witness: a COL_ROW plan with rows on two ports (A0, C4) set up without error
C11_Witness ==
    /\ InitSucceeded
    /\ g_scan_plan.mode = MATRIX_SCANNER_MODE_COL_ROW
    /\ row_pins = <<0, 20>>
    /\ PINCTRL[PORT_A_NUM][0] = ROW_PINCTRL_WIREDAND
    /\ PINCTRL[PORT_C_NUM][4] = ROW_PINCTRL_WIREDAND
    /\ 0 \in DIR[PORT_A_NUM] /\ 4 \in DIR[PORT_C_NUM]

---------------------------------------------------------------------------
(* matrix_has_active_row over the column masks and port inputs: columns on    *)
(* every port of the board, inputs changing on column pins and on other pins  *)

\* Column layouts: none; one port each of A, B, R; pairs of ports; all six ports.
ActiveColLayouts ==
    {<< >>, <<0>>, <<8>>, <<40>>, <<0, 16>>, <<8, 40>>, <<24, 32>>,
     <<0, 8, 16, 24, 32, 40>>}

\* the pins whose input level changes: bit 0 of every port, and B1
ActiveInputPins == {0, 8, 16, 24, 32, 40, 9}

InitActive ==
    /\ ResetState
    /\ LoadPlan({MATRIX_SCANNER_MODE_PIN_VCC}, {<< >>}, ActiveColLayouts, {<<40, 200>>})
    /\ g_slow_clock_mode = FALSE
    /\ clock_speed_slow = 2 * MHZ
    /\ rf_disabled = FALSE

\* An input pin, column or not, changes level.
InputEdge ==
    /\ \E pin \in ActiveInputPins :
          LET p == IO_MAP_GET_PIN_PORT(pin)
              b == IO_MAP_GET_PIN_BIT(pin)
          IN /\ PORT_IN' = [PORT_IN EXCEPT ![p] =
                                IF b \in @ THEN @ \ {b} ELSE @ \cup {b}]
             /\ INTFLAGS' = [INTFLAGS EXCEPT ![p] =
                                @ \/ (b \in INT0MASK[p] /\ PINCTRL[p][b].isc = "BOTHEDGES")]
    /\ UNCHANGED << setup_vars, has_scan_irq_triggered, DIR, OUT, INT0MASK, INTLVL,
                    PINCTRL, pc, scan_changed, debounce_log, ret, settle_delay >>

NextActive == MatrixScannerInit \/ InputEdge \/ HasActiveRow

SpecActive == InitActive /\ [][NextActive]_vars

\* C12: matrix_has_active_row returns true exactly if on some port of the board
\* an input bit inside that port's column mask is set, and changes nothing else.
C12_HasActiveRow ==
    [][HasActiveRow =>
          /\ ret' = (\E p \in Ports : \E b \in Bits :
                        b \in PORT_IN[p] /\ b \in s_col_masks[p])
          /\ UNCHANGED << setup_vars, has_scan_irq_triggered, DIR, OUT, INT0MASK, INTLVL,
                          INTFLAGS, PINCTRL, PORT_IN, pc, scan_changed, debounce_log,
                          settle_delay >>
      ]_vars

\* C12 witness: true was returned for a column bit on port R alone, with port B's
\* inputs set only outside its column mask
C12_Witness ==
    /\ ret
    /\ s_col_masks[PORT_R_NUM] = {0} /\ s_col_masks[PORT_B_NUM] = {0}
    /\ PORT_IN[PORT_R_NUM] = {0}
    /\ PORT_IN[PORT_B_NUM] = {1}
    /\ \A p \in Ports \ {PORT_R_NUM, PORT_B_NUM} : PORT_IN[p] = {}

---------------------------------------------------------------------------
(* The interrupt handler and the main line *)

\* C13: wherever the port interrupt preempts the main line, it sets
\* has_scan_irq_triggered and clears the hardware interrupt flags and changes
\* nothing else: not the row levels, interrupt levels, masks, row descriptors,
\* delays, plan or ledger, nor the position, the accumulated result, the debounce
\* calls and the column inputs of a matrix_scan in progress.
C13_IsrSharesOnlyFlag ==
    [][PortInterrupt =>
          /\ has_scan_irq_triggered'
          /\ \A p \in Ports : ~INTFLAGS'[p]
          /\ UNCHANGED << g_scan_plan, ledger, errors, scanner_statics,
                          DIR, OUT, INT0MASK, INTLVL, PINCTRL, PORT_IN,
                          pc, scan_changed, debounce_log, settle_delay, ret >>
      ]_vars

\* C13 witness: the handler has run with the main line inside a scan, between
\* select_row and unselect_row of row 1, and the scan's state is intact
C13_Witness ==
    /\ At("scan", "unselect") /\ pc.row = 1
    /\ has_scan_irq_triggered
    /\ \A p \in Ports : ~INTFLAGS[p] /\ INTLVL[p] = PORT_INT0LVL_LO_gc
    /\ Len(debounce_log) = 2
    /\ RowSelected(1) /\ ~RowSelected(0)
    /\ PORT_IN[PORT_B_NUM] = {0}

---------------------------------------------------------------------------
(* Radio pin setup *)

\* nrf24_init went past its first check (radio enabled, not yet initialised)
Nrf24InitRan == last = "nrf24_init" /\ trace # << >>

\* C14: when nrf24_init runs and the claim of one of its pin groups (SPI, CE,
\* IRQ) conflicts, ERROR_PIN_MAPPING_CONFLICT is registered after it and no port
\* register of that group's pins is written after the failed claim.
C14_RadioClaimFailure ==
    Nrf24InitRan =>
        \A i \in TraceIdx :
            trace[i].k = "claim_conflict" =>
                /\ \E j \in TraceIdx :
                       i < j /\ IsErr(trace[j], ERROR_PIN_MAPPING_CONFLICT)
                /\ \A j \in TraceIdx :
                       (i < j /\ IsRegWrite(trace[j]) /\ trace[j].p = trace[i].p) =>
                           trace[j].m \cap trace[i].m = {}

---------------------------------------------------------------------------
(* Arming and disarming the idle wake *)

Disarmed == \A p \in Ports : INTLVL[p] = PORT_INT0LVL_OFF_gc
\* every pin of the row port masks is at the level select_all_rows writes
RowMasksSelected == \A p \in Ports : OUT[p] \cap s_row_port_masks[p] = {}
\* every pin of the row port masks is at the level unselect_all_rows writes
RowMasksReleased == \A p \in Ports : s_row_port_masks[p] \subseteq OUT[p]
NoFlagPending == \A p \in Ports : ~INTFLAGS[p]

\* The five steps of matrix_scan_irq_enable in their order: the rows (the pins
\* of the row port masks) are selected from the first step on; the idle delay has
\* been waited before the hardware flags are cleared; the hardware flags are
\* cleared, then has_scan_irq_triggered; the level is written last, by the step
\* that returns.
ArmStepOrder ==
    /\ [](pc.op = "arm" => RowMasksSelected)
    /\ []((pc.op = "arm" /\ pc.step # "delay") =>
              settle_delay = SettleDelay("SLOW_CLOCK", 0, s_parasitic_discharge_delay_idle))
    /\ [][ArmDelay => pc'.step = "clear_flags"]_vars
    /\ [][ArmClearFlags => (pc'.step = "clear" /\ \A p \in Ports : ~INTFLAGS'[p])]_vars
    /\ [][ArmClear => (pc'.step = "level" /\ ~has_scan_irq_triggered')]_vars
    /\ [][(pc.op = "arm" /\ INTLVL' # INTLVL) => ArmLevel]_vars
    /\ [][ArmLevel =>
            (pc' = Idle /\ \A p \in Ports : INTLVL'[p] = PORT_INT0LVL_LO_gc)]_vars

\* An edge that came before the hardware flags were cleared does not set
\* has_scan_irq_triggered: called from the disarmed state, the flag is false
\* when the level is about to be enabled, and stays false over the return if
\* no hardware flag has been latched since the clear; the flag is set only by
\* the handler, the handler runs only for a latched hardware flag, and a
\* hardware flag is latched only by a column edge.
StaleEdgesDropped ==
    /\ []((At("arm", "level") /\ Disarmed) => ~has_scan_irq_triggered)
    /\ [][(ArmLevel /\ Disarmed /\ NoFlagPending) => ~has_scan_irq_triggered']_vars
    /\ [][(~has_scan_irq_triggered /\ has_scan_irq_triggered') =>
            (PortInterrupt /\ \E p \in Ports :
                                 INTFLAGS[p] /\ INTLVL[p] = PORT_INT0LVL_LO_gc)]_vars
    /\ [][(\E p \in Ports : ~INTFLAGS[p] /\ INTFLAGS'[p]) => ColumnEdge]_vars

\* C15 (as stated): matrix_scan_irq_enable selects all rows, waits the idle
\* delay, clears the hardware flags, clears has_scan_irq_triggered and enables
\* the level, in this order; called from the disarmed state, edges before the
\* hardware flags are cleared do not set has_scan_irq_triggered, and only edges
\* after the level is enabled can set it: no hardware flag latched earlier is
\* pending when the level is enabled.
C15_ArmOrderAsStated ==
    /\ ArmStepOrder
    /\ StaleEdgesDropped
    /\ [][(ArmLevel /\ Disarmed) => \A p \in Ports : ~INTFLAGS'[p]]_vars

\* C15 (amended): the same order; called from the disarmed state, edges before
\* the hardware flags are cleared do not set has_scan_irq_triggered, and every
\* edge after that clear can: one that comes between the clear and the enabling
\* of the level stays latched and runs the handler once the level is enabled.
C15_ArmOrder ==
    /\ ArmStepOrder
    /\ StaleEdgesDropped
    /\ [][(ArmLevel /\ Disarmed) =>
            \A p \in Ports :
                INTFLAGS[p] => (INTFLAGS'[p] /\ INTLVL'[p] = PORT_INT0LVL_LO_gc)]_vars

\* C15 witness: armed from the disarmed state with a key held (its column
\* input changed before the flags were cleared): has_scan_irq_triggered is
\* false, nothing is pending, the rows are selected
C15_Witness ==
    /\ pc = Idle /\ errors = {}
    /\ \A p \in Ports : INTLVL[p] = PORT_INT0LVL_LO_gc
    /\ ~has_scan_irq_triggered /\ NoFlagPending
    /\ PORT_IN[PORT_B_NUM] = {0}
    /\ g_scan_plan.rows = 2 /\ SelectedRows = {0, 1}

---------------------------------------------------------------------------
(* The settle delay of a row iteration *)

StoredDelays == << s_parasitic_discharge_delay_idle, s_parasitic_discharge_delay_debouncing >>

\* C17: in every row iteration of a matrix-mode scan the delay waited between
\* select_row and scan_row is the stored debouncing delay when the count of keys
\* mid-debounce queried in that iteration is non-zero and the stored idle delay
\* when it is zero, whatever the row; the row is sampled only after that delay;
\* and no step of a scan changes the two stored delays.
C17_SettleDelayGlobal ==
    /\ [][ScanDelay =>
            /\ MatrixMode
            /\ settle_delay'.num_keys_debouncing # 0 =>
                    settle_delay'.delay = s_parasitic_discharge_delay_debouncing
            /\ settle_delay'.num_keys_debouncing = 0 =>
                    settle_delay'.delay = s_parasitic_discharge_delay_idle
            /\ pc'.row = pc.row /\ pc'.step = "sample"]_vars
    /\ [][ScanSample => (settle_delay # NoDelay /\ settle_delay' = settle_delay)]_vars
    /\ [][(MatrixScan \/ pc.op = "scan") => UNCHANGED StoredDelays]_vars

\* C17 witness: the second row of a scan is about to be sampled after the
\* debouncing delay, several keys being mid-debounce, the idle delay being shorter
C17_Witness ==
    /\ At("scan", "sample") /\ pc.row = 1
    /\ MatrixMode /\ errors = {}
    /\ settle_delay.num_keys_debouncing = 3
    /\ settle_delay.delay = 200
    /\ StoredDelays = << 40, 200 >>

---------------------------------------------------------------------------
(* The pin-only modes *)

PinMode ==
    g_scan_plan.mode \in {MATRIX_SCANNER_MODE_PIN_GND, MATRIX_SCANNER_MODE_PIN_VCC}
ColBitsOf(p) ==
    {IO_MAP_GET_PIN_BIT(col_pins[i]) :
        i \in {j \in 1 .. Len(col_pins) : IO_MAP_GET_PIN_PORT(col_pins[j]) = p}}
NoRowDescriptor ==
    /\ \A p \in Ports : s_row_port_masks[p] = {}
    /\ \A r \in Rows : s_row_ports[r] = NULL /\ s_row_pin_mask[r] = {}
\* matrix_scanner_init on a pin-mode plan: nothing but column pins is claimed, no
\* pin becomes an output, no pin but a column pin is configured, no row
\* descriptor or row mask is written, no output level changes
PinModeInitNoRows ==
    [][(MatrixScannerInit /\ PinMode) =>
          /\ NoRowDescriptor'
          /\ \A p \in Ports :
                /\ ledger'[p] \subseteq ledger[p] \cup ColBitsOf(p)
                /\ DIR'[p] = {} /\ OUT'[p] = OUT[p]
                /\ \A b \in Bits \ ColBitsOf(p) : PINCTRL'[p][b] = PINCTRL[p][b]]_vars
\* one matrix_scan of a pin-mode plan: one sample, one debounce call with row 0,
\* whose result is returned
PinModeScanOnce ==
    [][(MatrixScan /\ PinMode) =>
          /\ pc' = Idle
          /\ Len(debounce_log') = 1
          /\ debounce_log'[1].row = 0
          /\ ret' = debounce_log'[1].changed]_vars
\* no step taken with a pin-mode plan changes an output level
PinModeNoDrive ==
    /\ [](PinMode => NoRowDescriptor)
    /\ [][PinMode => OUT' = OUT]_vars

---------------------------------------------------------------------------
(* The delay rescaling over slow-clock factors of the whole 8-bit range *)

\* CLOCK_SPEED_SLOW / 1000000 as it fits the uint8_t slow_factor: below, at and
\* above the base factor 16, up to 255
SlowFactors == {1, 2, 15, 16, 17, 32, 128, 255}

InitDelayWide ==
    /\ ResetState
    /\ LoadPlan({MATRIX_SCANNER_MODE_PIN_GND}, {<< >>}, {<<8>>},
                {<<d, MaxDelay - d>> : d \in 0 .. MaxDelay})
    /\ g_slow_clock_mode = TRUE
    /\ clock_speed_slow \in {k * MHZ : k \in SlowFactors}
    /\ rf_disabled = FALSE

NextDelayWide == MatrixScannerInit

SpecDelayWide == InitDelayWide /\ [][NextDelayWide]_vars

\* C19: in slow clock mode, for every nominal delay D in 0..255 and every
\* slow-clock factor that fits 8 bits, the product D * slow_factor fits 16 bits
\* and each stored delay is the truncated quotient (D * slow_factor) / 16
\* itself, not that quotient modulo 256.
C19_NoOverflow ==
    (InitReturned /\ g_slow_clock_mode) =>
        LET slow_factor == clock_speed_slow \div MHZ
            base_factor == BASE_CLOCK_HZ \div MHZ
            Didle == g_scan_plan.parasitic_discharge_delay_idle
            Ddeb == g_scan_plan.parasitic_discharge_delay_debouncing
        IN /\ Didle * slow_factor < 65536
           /\ Ddeb * slow_factor < 65536
           /\ s_parasitic_discharge_delay_idle = (Didle * slow_factor) \div base_factor
           /\ s_parasitic_discharge_delay_debouncing = (Ddeb * slow_factor) \div base_factor

---------------------------------------------------------------------------
(* Selecting and releasing rows *)

\* what the pin (p, b) does on its line with the output level it holds now
PinDriveNow(p, b) == PinDrive(PINCTRL[p][b], b \in OUT[p])
\* the pins of row r's descriptor
RowPinSet(r) ==
    IF r \in Rows /\ s_row_ports[r] # NULL
    THEN {<< s_row_ports[r], b >> : b \in s_row_pin_mask[r]}
    ELSE {}
RowMaskPins == {pb \in Ports \X Bits : pb[2] \in s_row_port_masks[pb[1]]}
\* the pins whose output level differs between the two states of a step
OutChanged ==
    {pb \in Ports \X Bits : (pb[2] \in OUT[pb[1]]) # (pb[2] \in OUT'[pb[1]])}

\* C20: in ROW_COL and COL_ROW mode the level unselect_row / unselect_all_rows
\* write disconnects the row pin under the drive setup_rows configured for it,
\* and the level select_row / select_all_rows write drives it (high in ROW_COL,
\* low in COL_ROW); a configured row that is released is never driven; and
\* select_row(r) / unselect_row(r) change the output level of no pin but row r's.
C20_ReleaseFloats ==
    /\ [](\A r \in ConfiguredRows : \A pb \in RowPinSet(r) :
             IF RowSelected(r)
             THEN PinDriveNow(pb[1], pb[2]) =
                     (IF g_scan_plan.mode = MATRIX_SCANNER_MODE_ROW_COL
                      THEN "HIGH" ELSE "LOW")
             ELSE PinDriveNow(pb[1], pb[2]) = "Z")
    /\ [][ScanSelect =>
            /\ OutChanged \subseteq RowPinSet(pc.row)
            /\ \A pb \in RowPinSet(pc.row) : PinDriveNow(pb[1], pb[2])' # "Z"]_vars
    /\ [][ScanUnselect =>
            /\ OutChanged \subseteq RowPinSet(pc.row)
            /\ \A pb \in RowPinSet(pc.row) : PinDriveNow(pb[1], pb[2])' = "Z"]_vars
    /\ [][ArmSelect =>
            \A pb \in RowMaskPins : PinDriveNow(pb[1], pb[2])' # "Z"]_vars
    /\ [][DisarmUnselect =>
            \A pb \in RowMaskPins : PinDriveNow(pb[1], pb[2])' = "Z"]_vars
    /\ [][(ScanSelect \/ ScanUnselect \/ ArmSelect \/ DisarmUnselect) =>
            UNCHANGED << DIR, PINCTRL >>]_vars

\* C20 witness: a COL_ROW scan has released row 0 and selected row 1: the pin
\* of row 0 floats, the pin of row 1 drives its line low
C20_Witness ==
    /\ g_scan_plan.mode = MATRIX_SCANNER_MODE_COL_ROW /\ errors = {}
    /\ At("scan", "delay") /\ pc.row = 1
    /\ ConfiguredRows = {0, 1}
    /\ RowPinSet(0) = {<< PORT_A_NUM, 0 >>} /\ RowPinSet(1) = {<< PORT_A_NUM, 1 >>}
    /\ PinDriveNow(PORT_A_NUM, 0) = "Z"
    /\ PinDriveNow(PORT_A_NUM, 1) = "LOW"

---------------------------------------------------------------------------
(* Pin ownership *)

ScannerOwns(p, mask) == mask \subseteq ledger_owner["scanner"][p]

\* C21: after matrix_scanner_init returns, with any outcome, every bit of the
\* column mask table, of the row port masks and of the row descriptors is a bit
\* the scanner itself obtained from the pin resource ledger.
C21_ScannerUsesOwnedPins ==
    InitReturned =>
        /\ \A p \in Ports : ScannerOwns(p, s_col_masks[p])
        /\ \A p \in Ports : ScannerOwns(p, s_row_port_masks[p])
        /\ \A r \in Rows :
              s_row_ports[r] # NULL => ScannerOwns(s_row_ports[r], s_row_pin_mask[r])

\* a claim call of the trace failed on a bit the scanner holds
ConflictWithScanner(e) ==
    /\ e.k = "claim_conflict"
    /\ e.m \cap ledger_owner["scanner"][e.p] # {}

\* C22: whenever nrf24_init registers ERROR_PIN_MAPPING_CONFLICT, one of its
\* claim calls failed on a pin held by another peripheral (the scanner); so with
\* the scanner holding none of the radio's pins, nrf24_init after nrf24_init and
\* nrf24_disable registers no conflict.
C22_NoSelfConflict ==
    Nrf24InitRan =>
        \A i \in TraceIdx :
            IsErr(trace[i], ERROR_PIN_MAPPING_CONFLICT) =>
                \E j \in 1 .. (i - 1) : ConflictWithScanner(trace[j])

RadioOwnsItsPins ==
    /\ SPI_PIN_MASK \subseteq ledger_owner["radio"][NRF24_SPI_PORT]
    /\ NRF24_CE_PIN \subseteq ledger_owner["radio"][NRF24_CE_PORT]
    /\ NRF24_IRQ_PIN_MASK \subseteq ledger_owner["radio"][NRF24_IRQ_PORT]
\* the most recent setup call was an nrf24_init that failed with a pin conflict
Nrf24InitConflicted ==
    /\ Nrf24InitRan
    /\ \E i \in TraceIdx : IsErr(trace[i], ERROR_PIN_MAPPING_CONFLICT)

\* C23: is_nrf24_initialized is true only while the radio holds its SPI, CE and
\* IRQ pins; after an nrf24_init that failed with a pin conflict nrf24_disable
\* changes no pin direction, and a following nrf24_init (radio enabled) is not
\* skipped as already initialised.
C23_InitializedImpliesOwnership ==
    /\ [](is_nrf24_initialized => RadioOwnsItsPins)
    /\ [][(Nrf24Disable /\ Nrf24InitConflicted) => DIR' = DIR]_vars
    /\ [][(Nrf24Init /\ Nrf24InitConflicted /\ ~rf_disabled) => trace' # << >>]_vars

=============================================================================
